---- MODULE Spec2Model ----
(***************************************************************************)
(* Wallet aggregation service: the shared rate-limited dispatcher          *)
(* (rateLimitedRequest), the address classifier (detectBlockchain) and the *)
(* getWalletData entry points with their chain adapters.                   *)
(*                                                                         *)
(* An async function is split at its awaits: the code between two awaits   *)
(* runs without interleaving (one JavaScript event-loop turn) and is one   *)
(* action.                                                                 *)
(*                                                                         *)
(* Time is in milliseconds and is kept as differences: instead of          *)
(* Date.now() and the timestamps taken from it, the state holds how long   *)
(* ago each timestamp was taken (a clock that Tick advances) and how long  *)
(* each pending setTimeout still has to run.  A clock stops growing at the *)
(* largest value the program or a property compares it with.               *)
(***************************************************************************)
EXTENDS Integers, Sequences, FiniteSets, TLC

(***************************************************************************)
(* Program constants                                                       *)
(***************************************************************************)
MIN_DELAY_MS == 500
MAX_RETRIES == 3

(***************************************************************************)
(* Bounds of the model                                                     *)
(***************************************************************************)
\* number of concurrent async flows that call the dispatcher
MaxTasks == 2
\* logical rateLimitedRequest calls one flow issues one after the other
MaxCalls == 2
\* the same, when a single flow is the only caller
MaxSeqCalls == 3
\* clock ticks a due sleep() timer may fire late
MaxLate == 0
\* clock ticks the transport may take to settle one attempt
MaxLatency == 1

Tasks == 1..MaxTasks

\* granularity of the modelled clock
TickMs == MIN_DELAY_MS \div 2

\* What the transport (axios) does with one attempt: a 2xx response, or a
\* rejection that carries error.response.status, or a rejection without any
\* response (network error, timeout): NoResponse.
NoResponse == 0 - 1
Statuses == {200, 404, 429, 503, NoResponse}
\* no attempt of the current call has been answered yet
NoStatus == 0 - 2
\* no call has returned yet
NoResult == [status |-> NoStatus, attempt |-> 0]
\* no earlier send to measure a gap from
NoGap == 0 - 1

Min(a, b) == IF a < b THEN a ELSE b

RECURSIVE pow(_, _)
pow(b, e) == IF e = 0 THEN 1 ELSE b * pow(b, e - 1)

VARIABLES
    elapsed,     \* Date.now() - lastRequestTime, up to MIN_DELAY_MS
    flow,        \* per async flow: its rateLimitedRequest / axios call
    sinceSend,   \* time since the most recent transport send started
    sendGap,     \* distance of that send from the transport send before it
    address,     \* the string handed to detectBlockchain
    detected,    \* what each detectBlockchain returned for it
    validation,  \* what validateAddress returned for it
    heliusKey,   \* whether HELIUS_API_KEY is configured
    req,         \* the getWalletData request being served
    conv         \* an upstream amount and what an adapter reports for it

\* flow[f] has the fields
\*   pc        where the call stands: "idle", "spacing" (line 59), "inflight"
\*             (line 66), "backoff" (line 72), "direct" (an axios call made
\*             without the dispatcher), "succeeded", "failed"
\*   retries   the retries argument of the running invocation
\*   timer     what is left of the pending sleep(ms)
\*   sinceSent time since the running transport call started
\*   sinceFail time since the attempt before a backoff failed
\*   waited    time from a failed attempt to the send of its retry, summed
\*             over the logical call
\*   attempts  transport calls of the logical call
\*   hist      statuses answered to the logical call, in order
\*   result    what the call returned or threw
\*   ncalls    logical calls the flow has issued
IdleFlow ==
    [pc |-> "idle", retries |-> 0, timer |-> 0, sinceSent |-> 0,
     sinceFail |-> 0, waited |-> 0, attempts |-> 0, hist |-> <<>>,
     result |-> NoResult, ncalls |-> 0]

netVars == <<sinceSend, sendGap>>
dispatcherVars == <<elapsed, flow, netVars>>
classifierVars == <<address, detected, validation>>
walletVars == <<heliusKey, req>>
appVars == <<classifierVars, walletVars, conv>>
vars == <<dispatcherVars, appVars>>

(***************************************************************************)
(* rateLimitedRequest, walletService.ts:53-77                              *)
(***************************************************************************)
\* a policy that retries every 4xx and 5xx answer
isRetryableStatus_any4xx(status) ==
    status # NoResponse /\ status >= 400 /\ status < 600

\* a policy that also retries an attempt that got no response
isRetryableStatus_noResponse(status) ==
    status = NoResponse \/ status = 429 \/ (status >= 500 /\ status < 600)

\* line 69, first conjunct: 429 or 5xx; error.response?.status is undefined
\* when there is no response and every comparison with it is false
isRetryableStatus(status) ==
    status # NoResponse /\ (status = 429 \/ (status >= 500 /\ status < 600))

\* a retry budget that is off by one
shouldRetry_offByOne(status, k) == isRetryableStatus(status) /\ k <= MAX_RETRIES

\* line 69: the whole condition of the retry branch
shouldRetry(status, k) == isRetryableStatus(status) /\ k < MAX_RETRIES

\* a backoff that grows linearly / does not grow
backoffTime_linear(k) == (k + 1) * 1000
backoffTime_constant(k) == 1000

\* line 70
backoffTime(k) == pow(2, k) * 1000

\* line 66: axios resolves on 2xx and rejects otherwise
isSuccess(status) == status >= 200 /\ status < 300

\* a dispatcher that never waits
spacingWait_none(e) == 0

\* lines 58-60: the argument of sleep() before the send, 0 when the call
\* does not sleep
spacingWait(e) == IF e < MIN_DELAY_MS THEN MIN_DELAY_MS - e ELSE 0

\* the clocks stop at the largest value they are compared with
MaxBackoff == backoffTime(MAX_RETRIES - 1)
WaitCap == backoffTime(MAX_RETRIES) - 1000

\* lines 63-66 for one flow: the attempt is handed to the transport
sent(fl) ==
    [fl EXCEPT !.pc = "inflight", !.timer = 0, !.sinceSent = 0,
               !.sinceFail = 0,
               !.waited = IF fl.retries > 0
                          THEN Min(@ + fl.sinceFail, WaitCap) ELSE 0,
               !.attempts = @ + 1]

\* line 53: a flow starts the invocation rateLimitedRequest(config, k);
\* k = 0 is a new logical call
invoked(fl, k) ==
    IF k > 0 THEN [fl EXCEPT !.retries = k]
    ELSE [fl EXCEPT !.retries = 0, !.attempts = 0, !.waited = 0,
                    !.hist = <<>>, !.result = NoResult, !.ncalls = @ + 1]

\* lines 55-66 up to the first await, for a flow that reads e at line 56
entered(fl, e, k) ==
    IF spacingWait(e) > 0
    THEN [invoked(fl, k) EXCEPT !.pc = "spacing", !.timer = spacingWait(e)]
    ELSE sent(invoked(fl, k))

\* the transport starts n requests at this instant: the observed sends
Transport(n) ==
    IF n = 0 THEN UNCHANGED netVars
    ELSE /\ sinceSend' = 0
         /\ sendGap' = IF n > 1 THEN 0 ELSE sinceSend

Lowest(S) == CHOOSE m \in S : \A g \in S : m <= g

\* a dispatcher whose retries send without writing lastRequestTime
EnterAllFrom_retryUnstamped(base, S, k) ==
    LET seen(f) == IF f = Lowest(S) \/ spacingWait(elapsed) > 0
                   THEN elapsed ELSE 0
        senders == {f \in S : spacingWait(seen(f)) = 0}
    IN  /\ flow' = [f \in DOMAIN base |->
                       IF f \in S THEN entered(base[f], seen(f), k)
                       ELSE base[f]]
        /\ elapsed' = IF senders = {} \/ k > 0 THEN elapsed ELSE 0
        /\ Transport(Cardinality(senders))

\* The flows of S call rateLimitedRequest(config, k) in the same turn of the
\* event loop, in increasing order (one caller, or the callbacks that
\* Promise.all(list.map(async ...)) starts).  A flow that sends at once
\* writes lastRequestTime (line 63) before the next one reads it (line 56).
\* base holds the flows as the code that runs before the calls left them.
EnterAllFrom(base, S, k) ==
    LET seen(f) == IF f = Lowest(S) \/ spacingWait(elapsed) > 0
                   THEN elapsed ELSE 0
        senders == {f \in S : spacingWait(seen(f)) = 0}
    IN  /\ flow' = [f \in DOMAIN base |->
                       IF f \in S THEN entered(base[f], seen(f), k)
                       ELSE base[f]]
        /\ elapsed' = IF senders = {} THEN elapsed ELSE 0
        /\ Transport(Cardinality(senders))

EnterAll(S, k) == EnterAllFrom(flow, S, k)

Running(t) ==
    flow[t].pc \in {"spacing", "inflight", "backoff", "direct", "hung"}

\* a client flow calls rateLimitedRequest(config), at most limit times
Invoke(t, limit) ==
    /\ ~Running(t)
    /\ flow[t].ncalls < limit
    /\ EnterAll({t}, 0)
    /\ UNCHANGED appVars

\* a dispatcher that holds a lock from the spacing check to the answer:
\* no attempt is sent while another one is with the transport
SpacingWake_locked(t) ==
    /\ flow[t].pc = "spacing"
    /\ flow[t].timer <= 0
    /\ \A u \in DOMAIN flow : flow[u].pc \notin {"inflight", "hung"}
    /\ flow' = [flow EXCEPT ![t] = sent(@)]
    /\ elapsed' = 0
    /\ Transport(1)
    /\ UNCHANGED appVars

\* line 59 resumes: the sleep(MIN_DELAY_MS - elapsed) timer fired
SpacingWake(t) ==
    /\ flow[t].pc = "spacing"
    /\ flow[t].timer <= 0
    /\ flow' = [flow EXCEPT ![t] = sent(@)]
    /\ elapsed' = 0
    /\ Transport(1)
    /\ UNCHANGED appVars

\* a dispatcher that surfaces the error of the first attempt
thrown_first(h, n) == [status |-> h[1], attempt |-> 1]

\* line 75 (and the rejected promise returned through line 73): the error
\* a failing call surfaces is the one the innermost invocation caught; h are
\* the statuses answered so far, the last of them to attempt number n
thrown(h, n) == [status |-> h[n], attempt |-> n]

\* lines 66-75 for one flow: the transport settled the attempt with status
settled(fl, status) ==
    LET h == Append(fl.hist, status)
        f0 == [fl EXCEPT !.hist = h, !.sinceSent = 0]
    IN  IF isSuccess(status)
        THEN [f0 EXCEPT !.pc = "succeeded",
                        !.result = [status |-> status, attempt |-> fl.attempts]]
        ELSE IF shouldRetry(status, fl.retries)
        THEN [f0 EXCEPT !.pc = "backoff", !.timer = backoffTime(fl.retries)]
        ELSE [f0 EXCEPT !.pc = "failed", !.result = thrown(h, fl.attempts)]

Respond(t, status) ==
    /\ flow[t].pc = "inflight"
    /\ flow' = [flow EXCEPT ![t] = settled(@, status)]
    /\ UNCHANGED <<elapsed, netVars, appVars>>

\* lines 72-73: the backoff timer fired, rateLimitedRequest(config, retries+1)
BackoffWake(t) ==
    /\ flow[t].pc = "backoff"
    /\ flow[t].timer <= 0
    /\ EnterAll({t}, flow[t].retries + 1)
    /\ UNCHANGED appVars

\* a retry is on its way: between the failed attempt and the next send
Retrying(fl) == fl.pc = "backoff" \/ (fl.pc = "spacing" /\ fl.retries > 0)

\* line 66 for an attempt the upstream never answers and the transport
\* never times out: the await never resumes
Hang(t) ==
    /\ flow[t].pc = "inflight"
    /\ flow' = [flow EXCEPT ![t].pc = "hung"]
    /\ UNCHANGED <<elapsed, netVars, appVars>>

\* the clock of a hung attempt stops here
HangCap == 2 * MIN_DELAY_MS

\* TickMs pass for one flow
ticked(fl) ==
    [fl EXCEPT !.timer = IF fl.pc \in {"spacing", "backoff"}
                         THEN @ - TickMs ELSE @,
               !.sinceSent = IF fl.pc \in {"inflight", "direct"}
                             THEN @ + TickMs
                             ELSE IF fl.pc = "hung"
                             THEN Min(@ + TickMs, HangCap)
                             ELSE @,
               !.sinceFail = IF Retrying(fl)
                             THEN Min(@ + TickMs, MaxBackoff) ELSE @]

\* TickMs pass.  A due timer fires, and the transport settles an attempt,
\* within the delays the model allows.
Tick ==
    /\ \A t \in DOMAIN flow :
          /\ flow[t].pc \in {"spacing", "backoff"}
                => flow[t].timer > 0 - MaxLate * TickMs
          /\ flow[t].pc \in {"inflight", "direct"}
                => flow[t].sinceSent < MaxLatency * TickMs
    /\ elapsed' = Min(elapsed + TickMs, MIN_DELAY_MS)
    /\ sinceSend' = IF sinceSend = NoGap THEN NoGap
                    ELSE Min(sinceSend + TickMs, MIN_DELAY_MS)
    /\ flow' = [t \in DOMAIN flow |-> ticked(flow[t])]
    /\ UNCHANGED <<sendGap, appVars>>

(***************************************************************************)
(* detectBlockchain, services/walletService.ts:116-128 and                 *)
(* wallet/walletUtils.ts:9-21                                              *)
(***************************************************************************)
\* A string is a sequence of one-character strings.  The characters the
\* two regular expressions tell apart, in the order of their char codes.
Digit == <<"0", "1", "2", "3", "4", "5", "6", "7", "8", "9">>
Upper ==
    <<"A", "B", "C", "D", "E", "F", "G", "H", "I", "J", "K", "L", "M",
      "N", "O", "P", "Q", "R", "S", "T", "U", "V", "W", "X", "Y", "Z">>
Lower ==
    <<"a", "b", "c", "d", "e", "f", "g", "h", "i", "j", "k", "l", "m",
      "n", "o", "p", "q", "r", "s", "t", "u", "v", "w", "x", "y", "z">>

indexIn(seq, c) == CHOOSE i \in 1..Len(seq) : seq[i] = c

\* the characters of the model: digits, letters, space and line feed
Chars ==
    {Digit[i] : i \in 1..Len(Digit)} \cup {Upper[i] : i \in 1..Len(Upper)}
       \cup {Lower[i] : i \in 1..Len(Lower)} \cup {" ", "\n"}

charCodes ==
    [c \in Chars |->
        IF \E i \in 1..Len(Digit) : Digit[i] = c THEN 47 + indexIn(Digit, c)
        ELSE IF \E i \in 1..Len(Upper) : Upper[i] = c THEN 64 + indexIn(Upper, c)
        ELSE IF \E i \in 1..Len(Lower) : Lower[i] = c THEN 96 + indexIn(Lower, c)
        ELSE IF c = " " THEN 32
        ELSE 10]

\* String.prototype.charCodeAt for the characters of the model
charCode(c) == charCodes[c]

\* a regular expression: ^ and $ anchors and a sequence of items, each a
\* character class (a set of code ranges) with a repetition {min,max}
Range(a, b) == <<charCode(a), charCode(b)>>
Lit(c) == [ranges |-> {Range(c, c)}, min |-> 1, max |-> 1]

\* the pattern without its $ anchor
EthereumPattern_unanchored ==
    [start |-> TRUE, end |-> FALSE,
     items |-> <<Lit("0"), Lit("x"),
                 [ranges |-> {Range("a", "f"), Range("A", "F"), Range("0", "9")},
                  min |-> 40, max |-> 40]>>]

\* /^0x[a-fA-F0-9]{40}$/
EthereumPattern ==
    [start |-> TRUE, end |-> TRUE,
     items |-> <<Lit("0"), Lit("x"),
                 [ranges |-> {Range("a", "f"), Range("A", "F"), Range("0", "9")},
                  min |-> 40, max |-> 40]>>]

\* /^[1-9A-HJ-NP-Za-km-z]{32,44}$/
SolanaPattern ==
    [start |-> TRUE, end |-> TRUE,
     items |-> <<[ranges |-> {Range("1", "9"), Range("A", "H"), Range("J", "N"),
                              Range("P", "Z"), Range("a", "k"), Range("m", "z")},
                  min |-> 32, max |-> 44]>>]

inClass(c, ranges) ==
    \E r \in ranges : r[1] <= charCode(c) /\ charCode(c) <= r[2]

\* the items of p from the j-th on match s from position i on; without the
\* m flag, $ matches only at the end of the input
RECURSIVE matchAt(_, _, _, _)
matchAt(s, i, p, j) ==
    IF j > Len(p.items) THEN (p.end => i = Len(s) + 1)
    ELSE LET it == p.items[j]
         IN  \E n \in it.min..it.max :
                /\ i + n - 1 <= Len(s)
                /\ \A q \in i..(i + n - 1) : inClass(s[q], it.ranges)
                /\ matchAt(s, i + n, p, j + 1)

\* RegExp.prototype.test
test(p, s) ==
    \E i \in (IF p.start THEN {1} ELSE 1..(Len(s) + 1)) : matchAt(s, i, p, 1)

\* services/walletService.ts:116-128
detectBlockchain(a) ==
    IF test(EthereumPattern, a) THEN "ethereum"
    ELSE IF test(SolanaPattern, a) THEN "solana"
    ELSE "null"

\* wallet/walletUtils.ts:9-21
walletUtils_detectBlockchain(a) ==
    IF test(EthereumPattern, a) THEN "ethereum"
    ELSE IF test(SolanaPattern, a) THEN "solana"
    ELSE "unknown"

NotDetected == [services |-> "pending", wallet |-> "pending"]

\* a caller applies the services classifier to the address
DetectServices ==
    /\ detected.services = "pending"
    /\ detected' = [detected EXCEPT !.services = detectBlockchain(address)]
    /\ UNCHANGED <<dispatcherVars, address, validation, walletVars, conv>>

\* a caller applies the wallet-module classifier to the address
DetectWallet ==
    /\ detected.wallet = "pending"
    /\ detected' = [detected EXCEPT !.wallet = walletUtils_detectBlockchain(address)]
    /\ UNCHANGED <<dispatcherVars, address, validation, walletVars, conv>>

\* what validateAddress has returned: nothing yet
NotValidated == [isValid |-> FALSE, blockchain |-> "pending"]

\* !!v for a string or null
truthy(v) == v \notin {"null", ""}

\* a validation that accepts every string
validateAddress_acceptAll(a) ==
    [isValid |-> TRUE, blockchain |-> detectBlockchain(a)]

\* controllers/walletController.ts:12-18
validateAddress(a) ==
    [isValid |-> truthy(detectBlockchain(a)),
     blockchain |-> detectBlockchain(a)]

\* a caller validates the address
ValidateAddress ==
    /\ validation.blockchain = "pending"
    /\ validation' = validateAddress(address)
    /\ UNCHANGED <<dispatcherVars, address, detected, walletVars, conv>>

\* The addresses the classifiers are applied to: a prefix, a body of n
\* characters that alternates two characters, and a suffix.
\* longest body
MaxBody == 45
Prefixes ==
    {<<>>, <<"0", "x">>, <<"0", "X">>, <<"1", "x">>, <<" ", "0", "x">>}
Fills ==
    {<<"a", "F">>, <<"9", "0">>, <<"1", "z">>, <<"g", "a">>, <<"G", "A">>,
     <<"O", "1">>, <<"I", "Z">>, <<"l", "k">>, <<"H", "J">>, <<"N", "P">>,
     <<"m", "0">>}
Suffixes == {<<>>, <<"\n">>, <<"f">>, <<"O">>, <<"z">>, <<"g">>}
filled(n, fill) == [i \in 1..n |-> IF i % 2 = 1 THEN fill[1] ELSE fill[2]]
Addresses ==
    {p \o filled(n, f) \o x :
        p \in Prefixes, n \in 0..MaxBody, f \in Fills, x \in Suffixes}

(***************************************************************************)
(* getWalletData and the chain adapters: services/walletService.ts:135-501 *)
(* (the module the controller calls) and wallet/*.ts (a second             *)
(* implementation of the same operations)                                  *)
(***************************************************************************)
\* tokens in an upstream token listing
MaxTokens == 2
\* signatures in an upstream signature listing
MaxSigs == 1
\* getWalletData requests one process serves
MaxRequests == 2

Impls == {"services", "wallet"}

\* flow 1 runs the adapter; flow 1 + i runs the Promise.all callback of
\* token i
WalletFlows == 1..(1 + MaxTokens)

\* what the transport answers to the calls of an adapter
WalletStatuses == {200, 404, 429}

EthAddress == <<"0", "x">> \o filled(40, <<"a", "F">>)
SolAddress == filled(44, <<"1", "z">>)
SampleAddresses ==
    {EthAddress, SolAddress, <<"b", "a", "d">>,
     <<"0", "x">> \o filled(41, <<"a", "F">>), filled(31, <<"1", "z">>)}

\* One awaited upstream call of an adapter: through which function it is
\* sent, and whether a try/catch around it (or inside the helper that makes
\* it) turns its failure into a default value.
Call(name, via, caught) ==
    [kind |-> "call", name |-> name, via |-> via, caught |-> caught,
     over |-> "none", body |-> <<>>]
\* the calls made for each item of a listing: kind "fanout" starts them for
\* all items at once (Promise.all over map), kind "each" runs them item
\* after item (for ... of)
Loop(kind, over, body) ==
    [kind |-> kind, name |-> "", via |-> "", caught |-> FALSE,
     over |-> over, body |-> body]

\* the adapter without the try/catch around its token price lookup
getEthereumWalletData_priceUncaught ==
    <<Call("balance", "axios", FALSE),
      Call("tokenList", "axios", FALSE),
      Loop("fanout", "tokens",
           <<Call("metadata", "axios", FALSE),
             Call("tokenPrice", "rateLimitedRequest", FALSE)>>),
      Call("txList", "axios", FALSE),
      Call("nativePrice", "rateLimitedRequest", TRUE)>>

\* services/walletService.ts:135-253
getEthereumWalletData ==
    <<Call("balance", "axios", FALSE),
      Call("tokenList", "axios", FALSE),
      Loop("fanout", "tokens",
           <<Call("metadata", "axios", FALSE),
             Call("tokenPrice", "rateLimitedRequest", TRUE)>>),
      Call("txList", "axios", FALSE),
      Call("nativePrice", "rateLimitedRequest", TRUE)>>

\* services/walletService.ts:276-477
getSolanaWalletData ==
    <<Call("balance", "rateLimitedRequest", FALSE),
      Call("tokenList", "rateLimitedRequest", FALSE),
      Loop("fanout", "tokens",
           <<Call("tokenRegistry", "rateLimitedRequest", TRUE),
             Call("tokenPrice", "rateLimitedRequest", TRUE)>>),
      Call("txList", "rateLimitedRequest", FALSE),
      Loop("each", "sigs", <<Call("txDetail", "rateLimitedRequest", TRUE)>>),
      Call("nativePrice", "rateLimitedRequest", TRUE)>>

\* wallet/ethereumService.ts:11-115
wallet_getEthereumWalletData ==
    <<Call("balance", "axios", FALSE),
      Call("nativePrice", "axios", TRUE),
      Call("tokenList", "axios", FALSE),
      Loop("each", "tokens",
           <<Call("metadata", "axios", FALSE),
             Call("tokenPrice", "axios", TRUE),
             Call("tokenLogo", "axios", TRUE)>>),
      Call("txList", "axios", FALSE)>>

\* wallet/solanaService.ts:14-166
wallet_getSolanaWalletData ==
    <<Call("balance", "axios", FALSE),
      Call("nativePrice", "axios", TRUE),
      Call("tokenList", "axios", FALSE),
      Loop("each", "tokens", <<Call("tokenPrice", "axios", TRUE)>>),
      Call("txList", "axios", FALSE),
      Loop("each", "sigs", <<Call("txDetail", "axios", TRUE)>>)>>

\* The endpoint each call of an adapter is sent to.  Ethereum adapters:
\* the Alchemy Ethereum RPC (walletService.ts:138, 149, 161), Etherscan
\* (line 200) and CoinGecko (lines 175, 230).  Solana adapters: the Helius
\* RPC (lines 281, 296, 377, 397), the token list on GitHub (line 328) and
\* CoinGecko (lines 348, 459).
endpointOf(chain, name) ==
    IF name \in {"tokenPrice", "nativePrice", "tokenLogo"} THEN "coingecko"
    ELSE IF name = "tokenRegistry" THEN "solana-token-list"
    ELSE IF chain = "solana" THEN "helius-rpc"
    ELSE IF name = "txList" THEN "etherscan"
    ELSE "alchemy-eth"

programOf(impl, chain) ==
    IF impl = "services"
    THEN (IF chain = "ethereum" THEN getEthereumWalletData
          ELSE getSolanaWalletData)
    ELSE (IF chain = "ethereum" THEN wallet_getEthereumWalletData
          ELSE wallet_getSolanaWalletData)

\* what getWalletData hands to its caller
NoReply == [kind |-> "none", message |-> "", detail |-> NoStatus]
\* throw new Error(message)
thrownError(message) ==
    [kind |-> "throw", message |-> message, detail |-> NoStatus]
\* return { error: message }
errorValue(message) ==
    [kind |-> "error", message |-> message, detail |-> NoStatus]

\* req has the fields
\*   n          requests started so far
\*   impl       the module whose getWalletData serves the request
\*   address    its argument
\*   blockchain what detectBlockchain returned
\*   chain      the adapter that was selected
\*   at, item, sub  the step of the adapter the main flow is at, the item of
\*              the listing and the call of the loop body it is at
\*   cb         per callback flow of a fan-out: 0 not started, the call of
\*              the body it is at, Len(body) + 1 returned, Len(body) + 2
\*              rejected
\*   nTokens, nSigs  sizes of the listings the upstream answered
\*   called     names of the upstream calls started
\*   defaulted  calls whose failure was replaced by a default
\*   failedCall the call whose failure ended the request
\*   balance    the native amount the balance call answered
\*   price      the price kept for the native asset (index 0) and for each
\*              token: "let price = 0" until a lookup answers one
\*   txs        the transactions pushed so far
\*   malformed  the calls that were answered 2xx with a malformed body
\*   completed  the tokens whose fan-out callback has returned, in the
\*              order the callbacks returned
\*   seen       for each transaction pushed, what the upstream answered
\*              about it (an entry of the Etherscan listing, or the detail
\*              of a signature)
\*   details    what each getTransaction call made so far ended in: "ok",
\*              "null" (answered without a result) or "failed"
\*   reply      what the caller got
IdleRequest ==
    [n |-> 0, impl |-> "none", address |-> <<>>, blockchain |-> "none",
     chain |-> "none", at |-> 0, item |-> 0, sub |-> 0,
     cb |-> [f \in WalletFlows |-> 0], nTokens |-> 0, nSigs |-> 0,
     called |-> {}, defaulted |-> {}, failedCall |-> "none",
     balance |-> 0, price |-> [i \in 0..MaxTokens |-> 0], txs |-> <<>>,
     details |-> <<>>, seen |-> <<>>, malformed |-> {}, completed |-> <<>>,
     reply |-> NoReply]

\* parseInt(undefined, 16), and every product with it
NaN == 0 - 1
times(a, b) == IF a = NaN \/ b = NaN THEN NaN ELSE a * b

\* the raw amount the upstream listing gives for token i
tokenBalance(i) == i + 1

\* a snapshot that lists the tokens in the order their callbacks returned
snapshotOf_completionOrder(r) ==
    [kind |-> "snapshot", message |-> "", detail |-> NoStatus,
     chain |-> r.chain, balance |-> r.balance,
     balanceUsd |-> times(r.balance, r.price[0]),
     tokens |-> [i \in 1..Len(r.completed) |->
                    [token |-> r.completed[i], price |-> r.price[r.completed[i]],
                     value |-> tokenBalance(r.completed[i])
                                  * r.price[r.completed[i]]]],
     transactions |-> r.txs]

\* the snapshot an adapter returns (walletService.ts:241-248, 470-477;
\* wallet/ethereumService.ts:103-110, wallet/solanaService.ts:154-161):
\* one entry per token of the listing, in its order, each with
\* value = balance * price
snapshotOf(r) ==
    [kind |-> "snapshot", message |-> "", detail |-> NoStatus,
     chain |-> r.chain, balance |-> r.balance,
     balanceUsd |-> times(r.balance, r.price[0]),
     tokens |-> [i \in 1..r.nTokens |->
                    [token |-> i, price |-> r.price[i],
                     value |-> tokenBalance(i) * r.price[i]]],
     transactions |-> r.txs]

classify(impl, a) ==
    IF impl = "services" THEN detectBlockchain(a)
    ELSE walletUtils_detectBlockchain(a)

\* detectBlockchain on the addresses the requests are made with
classified == [i \in Impls |-> [a \in SampleAddresses |-> classify(i, a)]]

\* a dispatch that hands every string to an adapter
rejects_never(impl, blockchain) == FALSE

\* walletService.ts:492 (!blockchain); wallet/ethereumService.ts:131-137
\* (neither 'ethereum' nor 'solana')
rejects(impl, blockchain) ==
    IF impl = "services" THEN blockchain = "null"
    ELSE blockchain \notin {"ethereum", "solana"}

\* a dispatch that hands each address to the adapter of the other chain
adapterOf_swapped(impl, blockchain) ==
    IF blockchain = "ethereum" THEN "solana" ELSE "ethereum"

\* walletService.ts:496-500, wallet/ethereumService.ts:131-134
adapterOf(impl, blockchain) ==
    IF blockchain = "ethereum" THEN "ethereum" ELSE "solana"

\* walletService.ts:493, wallet/ethereumService.ts:136
invalidReply(impl) ==
    IF impl = "services" THEN thrownError("Invalid wallet address")
    ELSE errorValue("Unsupported blockchain or invalid address format")

\* an adapter that lets the upstream error through
adapterCatch_rethrow(chain, err) ==
    [kind |-> "throw", message |-> "Request failed", detail |-> err.status]

\* the catch around the whole adapter (walletService.ts:249-252, 478-481;
\* wallet/ethereumService.ts:111-114, wallet/solanaService.ts:162-165);
\* err is what it caught
adapterCatch(chain, err) ==
    thrownError(IF chain = "ethereum"
                THEN "Failed to fetch Ethereum wallet data"
                ELSE "Failed to fetch Solana wallet data")

\* the module whose getWalletData the controller returns the promise of
\* (controllers/walletController.ts:1, 25-27)
walletController_getWalletData == "services"

\* what reaches the caller of getWalletData: the services module passes the
\* adapter's result or exception on (walletService.ts:497-499), the wallet
\* module catches every exception (wallet/ethereumService.ts:138-141)
replyOf(impl, r) ==
    IF impl = "wallet" /\ r.kind = "throw"
    THEN errorValue("Failed to fetch wallet data")
    ELSE r

stepAt(r) == programOf(r.impl, r.chain)[r.at]

\* a loop over the whole signature listing
count_uncapped(r, over) == IF over = "tokens" THEN r.nTokens ELSE r.nSigs

\* items a loop runs over: every token; the first 5 signatures
\* (walletService.ts:391), the first 10 in the wallet module
\* (wallet/solanaService.ts:111)
count(r, over) ==
    IF over = "tokens" THEN r.nTokens
    ELSE Min(r.nSigs, IF r.impl = "services" THEN 5 ELSE 10)

\* the position at which step i starts: a loop over nothing is skipped
RECURSIVE enter(_, _)
enter(r, i) ==
    LET P == programOf(r.impl, r.chain)
    IN  IF i > Len(P) \/ P[i].kind = "call"
        THEN [at |-> i, item |-> 0, sub |-> 0]
        ELSE IF count(r, P[i].over) = 0 THEN enter(r, i + 1)
        ELSE [at |-> i, item |-> 1, sub |-> 1]

\* the position after the one the main flow is at
following(r) ==
    LET s == stepAt(r)
    IN  IF s.kind = "each" /\ r.sub < Len(s.body)
        THEN [at |-> r.at, item |-> r.item, sub |-> r.sub + 1]
        ELSE IF s.kind = "each" /\ r.item < count(r, s.over)
        THEN [at |-> r.at, item |-> r.item + 1, sub |-> 1]
        ELSE enter(r, r.at + 1)

\* the call the main flow awaits
currentCall(r) ==
    IF stepAt(r).kind = "call" THEN stepAt(r) ELSE stepAt(r).body[r.sub]

\* an axios call made without the dispatcher: one attempt
direct(fl) ==
    [fl EXCEPT !.pc = "direct", !.retries = 0, !.timer = 0,
               !.sinceSent = 0, !.sinceFail = 0, !.waited = 0,
               !.attempts = 1, !.hist = <<>>, !.result = NoResult,
               !.ncalls = @ + 1]

settledDirect(fl, status) ==
    [fl EXCEPT !.pc = IF isSuccess(status) THEN "succeeded" ELSE "failed",
               !.hist = <<status>>, !.sinceSent = 0,
               !.result = [status |-> status, attempt |-> 1]]

\* the flows of S each start the call c in the same turn
StartCalls(base, S, c) ==
    IF c.via = "rateLimitedRequest" THEN EnterAllFrom(base, S, 0)
    ELSE /\ flow' = [f \in DOMAIN base |->
                        IF f \in S THEN direct(base[f]) ELSE base[f]]
         /\ elapsed' = elapsed
         /\ Transport(Cardinality(S))

\* the transport settles a direct axios call
RespondDirect(f, status) ==
    /\ flow[f].pc = "direct"
    /\ flow' = [flow EXCEPT ![f] = settledDirect(@, status)]
    /\ UNCHANGED <<elapsed, netVars, appVars>>

\* The adapter goes on at position p: it returns its snapshot, or starts
\* the call at p, or starts the callbacks of a fan-out, which all run up to
\* their first await.
Proceed(r, p, base) ==
    LET r1 == [r EXCEPT !.at = p.at, !.item = p.item, !.sub = p.sub]
        P == programOf(r.impl, r.chain)
    IN  IF p.at > Len(P)
        THEN /\ req' = [r1 EXCEPT !.reply = replyOf(r.impl, snapshotOf(r1))]
             /\ flow' = base
             /\ UNCHANGED <<elapsed, netVars>>
        ELSE IF P[p.at].kind = "fanout"
        THEN LET S == 2..(1 + r1.nTokens)
                 c == P[p.at].body[1]
             IN  /\ req' = [r1 EXCEPT
                              !.cb = [f \in WalletFlows |->
                                         IF f \in S THEN 1 ELSE 0],
                              !.called = @ \cup {c.name}]
                 /\ StartCalls(base, S, c)
        ELSE /\ req' = [r1 EXCEPT !.called = @ \cup {currentCall(r1).name}]
             /\ StartCalls(base, {1}, currentCall(r1))

\* a request that starts with the prices the request before it resolved
freshRequest_keepPrices(r, i, a, b) ==
    [IdleRequest EXCEPT !.n = r.n + 1, !.impl = i, !.address = a,
                        !.blockchain = b, !.price = r.price]

\* What a request starts with: every binding of getWalletData and of the
\* adapters is a local const or let (walletService.ts:145-146, 157-158, 205,
\* 227, 290-291, 310-311, 386-387, 454); nothing is read from the request
\* r served before.
freshRequest(r, i, a, b) ==
    [IdleRequest EXCEPT !.n = r.n + 1, !.impl = i, !.address = a,
                        !.blockchain = b]

\* an adapter that does not look at its API key
keyMissing_ignored(impl, chain, key) == FALSE

\* walletService.ts:262: if (!HELIUS_API_KEY), in the services Solana
\* adapter only
keyMissing(impl, chain, key) ==
    impl = "services" /\ chain = "solana" /\ ~key

\* getWalletData(address) up to its first await: walletService.ts:489-501
\* with the adapter it calls; wallet/ethereumService.ts:126-142
GetWalletData(i, a) ==
    /\ req.n < MaxRequests
    /\ req.n > 0 => req.reply.kind # "none"
    /\ \A f \in DOMAIN flow : flow[f].pc = "idle"
    /\ \E b \in {classified[i][a]} :
       \E r0 \in {freshRequest(req, i, a, b)} :
       \E r1 \in {[r0 EXCEPT !.chain = adapterOf(i, b)]} :
           IF rejects(i, b)
           THEN /\ req' = [r0 EXCEPT !.reply = invalidReply(i)]
                /\ UNCHANGED dispatcherVars
           ELSE IF keyMissing(i, r1.chain, heliusKey)
           THEN \* walletService.ts:262-274
                /\ req' = [r1 EXCEPT !.reply = snapshotOf(r1)]
                /\ UNCHANGED dispatcherVars
           ELSE \E p \in {enter(r1, 1)} : Proceed(r1, p, flow)
    /\ UNCHANGED <<classifierVars, heliusKey, conv>>

\* the body of a 2xx answer, as far as the adapters look at it: n is the
\* size of a listing, an amount or a price, or 1 for a transaction detail
\* and 0 for a null one; items are the entries of a transaction listing, or
\* the transaction detail
Answer(n) == [n |-> n, items |-> <<>>, shape |-> "ok"]
\* a transaction listing, or a transaction detail
Listing(items) == [n |-> Len(items), items |-> items, shape |-> "ok"]
\* a 2xx answer without the result the adapter reads (a JSON-RPC error
\* body; an Etherscan body with status '0' or a result that is no array);
\* n is what the adapter makes of it where it goes on
Malformed(n) == [n |-> n, items |-> <<>>, shape |-> "malformed"]

\* Whether reading a malformed answer to a top-level call throws a
\* TypeError.  Token listings: .result.tokenBalances, .result.value and
\* "for ... of" on undefined throw (walletService.ts:157, 310;
\* wallet/ethereumService.ts:40, wallet/solanaService.ts:52-56).  Balance:
\* .result.value throws (walletService.ts:290, wallet/solanaService.ts:28),
\* parseInt(.result, 16) gives NaN (walletService.ts:145,
\* wallet/ethereumService.ts:26-27).  Transaction listings: the services
\* adapters check the shape and go on with an empty list
\* (walletService.ts:207, 386), the wallet adapters call .map and .slice on
\* the result (wallet/ethereumService.ts:82, wallet/solanaService.ts:111).
malformedThrows(impl, chain, name) ==
    IF name = "tokenList" THEN TRUE
    ELSE IF name = "balance" THEN chain = "solana"
    ELSE IF name = "txList" THEN impl = "wallet"
    ELSE FALSE

\* What the Ethereum adapters read in an entry of the Etherscan listing:
\* whether from and to are the queried address, and whether isError is
\* something else than '0'.
EthereumTxs == [from : BOOLEAN, to : BOOLEAN, isError : BOOLEAN]

\* walletService.ts:216; wallet/ethereumService.ts:84-89
ethereumTxType(impl, t) ==
    IF t.from THEN "send"
    ELSE IF impl = "services" \/ t.to THEN "receive"
    ELSE "other"

\* walletService.ts:208-217; wallet/ethereumService.ts:91-100
ethereumTx(impl, j, t) ==
    [sig |-> j, status |-> IF t.isError THEN "failed" ELSE "success",
     type |-> ethereumTxType(impl, t)]

\* entries in an Etherscan transaction listing
MaxTxs == 1
EthereumListings ==
    UNION {[1..n -> EthereumTxs] : n \in 0..MaxTxs}

\* What the Solana adapters read in a getTransaction result: how the
\* post-balance of the queried address compares with its pre-balance
\* ("none": the address is not among the account keys, or the balances are
\* missing), whether the fee payer is the queried address, and meta.err.
SolanaDetails ==
    [delta : {"less", "more", "same", "none"}, feePayer : BOOLEAN,
     err : BOOLEAN]

\* walletService.ts:416-431; wallet/solanaService.ts:135, 145
solanaTxType(impl, d) ==
    IF impl = "wallet" THEN (IF d.feePayer THEN "send" ELSE "receive")
    ELSE IF d.delta = "less" THEN "send"
    ELSE IF d.delta = "more" THEN "receive"
    ELSE IF d.feePayer THEN "send"
    ELSE "unknown"

\* walletService.ts:440; wallet/solanaService.ts:144
solanaTxStatus(impl, d) ==
    IF impl = "services" /\ d.err THEN "failed" ELSE "success"

\* the transaction pushed for signature j (walletService.ts:433-442)
solanaTx(impl, j, d) ==
    [sig |-> j, status |-> solanaTxStatus(impl, d),
     type |-> solanaTxType(impl, d)]

\* prices a price lookup can answer; 0 is an answer without a usd price
Prices == {0, 3}
\* native amounts a balance call can answer
Balances == {5}

\* the answers call c can get
answers(r, c) ==
    IF c.name = "tokenList"
    THEN {Answer(n) : n \in 0..MaxTokens} \cup {Malformed(0)}
    ELSE IF c.name = "txList" /\ r.chain = "solana"
    THEN {Answer(n) : n \in 0..MaxSigs} \cup {Malformed(0)}
    ELSE IF c.name = "txList"
    THEN {Listing(t) : t \in EthereumListings} \cup {Malformed(0)}
    ELSE IF c.name \in {"tokenPrice", "nativePrice"}
    THEN {Answer(n) : n \in Prices}
    ELSE IF c.name = "balance"
    THEN {Answer(n) : n \in Balances} \cup {Malformed(NaN)}
    ELSE IF c.name = "txDetail"
    THEN {Answer(0)} \cup {Listing(<<d>>) : d \in SolanaDetails}
    ELSE {Answer(0)}

\* what the adapter keeps of the outcome of call c made for item i: the
\* size of a listing, an amount, a price (usd || 0), or the default that
\* replaces a failed call
noted(r, c, i, ok, a) ==
    [r EXCEPT !.nTokens = IF ok /\ c.name = "tokenList" THEN a.n ELSE @,
              !.nSigs = IF ok /\ c.name = "txList" THEN a.n ELSE @,
              !.balance = IF ok /\ c.name = "balance" THEN a.n ELSE @,
              !.price[0] = IF ok /\ c.name = "nativePrice" THEN a.n ELSE @,
              !.price[i] = IF ok /\ c.name = "tokenPrice" THEN a.n ELSE @,
              !.txs = IF ok /\ c.name = "txDetail" /\ a.n > 0
                      THEN Append(@, solanaTx(r.impl, i, a.items[1]))
                      ELSE IF ok /\ c.name = "txList" /\ r.chain = "ethereum"
                      THEN [j \in 1..a.n |-> ethereumTx(r.impl, j, a.items[j])]
                      ELSE @,
              !.seen = IF ok /\ c.name = "txDetail" /\ a.n > 0
                       THEN Append(@, a.items[1])
                       ELSE IF ok /\ c.name = "txList" /\ r.chain = "ethereum"
                       THEN a.items
                       ELSE @,
              !.malformed = IF ok /\ a.shape = "malformed"
                            THEN @ \cup {c.name} ELSE @,
              !.details = IF c.name # "txDetail" THEN @
                          ELSE Append(@, IF ~ok THEN "failed"
                                         ELSE IF a.n > 0 THEN "ok"
                                         ELSE "null"),
              !.defaulted = IF ok THEN @ ELSE @ \cup {<<c.name, i>>}]

\* The await of the main flow resumes: the call it awaited has settled.  A
\* failure outside a try/catch goes to the catch around the adapter.
Advance ==
    /\ req.reply.kind = "none"
    /\ req.at \in 1..Len(programOf(req.impl, req.chain))
    /\ stepAt(req).kind # "fanout"
    /\ flow[1].pc \in {"succeeded", "failed"}
    /\ LET c == currentCall(req)
           ok == flow[1].pc = "succeeded"
           base == [flow EXCEPT ![1] = IdleFlow]
       IN  IF ~ok /\ ~c.caught
           THEN /\ req' = [req EXCEPT
                             !.failedCall = c.name,
                             !.reply = replyOf(req.impl,
                                          adapterCatch(req.chain, flow[1].result))]
                /\ flow' = base
                /\ UNCHANGED <<elapsed, netVars>>
           ELSE \E a \in answers(req, c) :
                IF /\ ok
                   /\ a.shape = "malformed"
                   /\ malformedThrows(req.impl, req.chain, c.name)
                THEN \* a TypeError outside every inner try/catch
                     /\ req' = [req EXCEPT
                                  !.failedCall = c.name,
                                  !.malformed = @ \cup {c.name},
                                  !.reply = replyOf(req.impl,
                                               adapterCatch(req.chain, NoResult))]
                     /\ flow' = base
                     /\ UNCHANGED <<elapsed, netVars>>
                ELSE \E r \in {noted(req, c, req.item, ok, a)} :
                     \E p \in {following(r)} : Proceed(r, p, base)
    /\ UNCHANGED <<classifierVars, heliusKey, conv>>

\* The await of a Promise.all callback resumes.  A failure outside a
\* try/catch rejects the callback: Promise.all rejects with the first such
\* rejection, the other callbacks run on.  When the last callback returns,
\* Promise.all resolves and the main flow goes on.
AdvanceCallback(f) ==
    /\ f > 1
    /\ req.at \in 1..Len(programOf(req.impl, req.chain))
    /\ stepAt(req).kind = "fanout"
    /\ req.cb[f] \in 1..Len(stepAt(req).body)
    /\ flow[f].pc \in {"succeeded", "failed"}
    /\ \E a \in answers(req, stepAt(req).body[req.cb[f]]) :
       LET B == stepAt(req).body
           c == B[req.cb[f]]
           ok == flow[f].pc = "succeeded"
           base == [flow EXCEPT ![f] = IdleFlow]
           r1 == noted(req, c, f - 1, ok, a)
           r2 == [r1 EXCEPT !.cb[f] = Len(B) + 1,
                            !.completed = Append(@, f - 1)]
       IN  IF ~ok /\ ~c.caught
           THEN /\ req' = [req EXCEPT
                             !.cb[f] = Len(B) + 2,
                             !.failedCall =
                                 IF req.reply.kind = "none" THEN c.name ELSE @,
                             !.reply =
                                 IF req.reply.kind = "none"
                                 THEN replyOf(req.impl,
                                        adapterCatch(req.chain, flow[f].result))
                                 ELSE @]
                /\ flow' = base
                /\ UNCHANGED <<elapsed, netVars>>
           ELSE IF req.cb[f] < Len(B)
           THEN /\ req' = [r1 EXCEPT !.cb[f] = @ + 1,
                                     !.called = @ \cup {B[req.cb[f] + 1].name}]
                /\ StartCalls(base, {f}, B[req.cb[f] + 1])
           ELSE IF /\ req.reply.kind = "none"
                   /\ \A g \in 2..(1 + req.nTokens) : r2.cb[g] = Len(B) + 1
           THEN \E r \in {r2} : \E p \in {enter(r, r.at + 1)} :
                   Proceed(r, p, base)
           ELSE /\ req' = r2
                /\ flow' = base
                /\ UNCHANGED <<elapsed, netVars>>
    /\ UNCHANGED <<classifierVars, heliusKey, conv>>

\* signatures in the listing the transaction loop is run on
MaxSigList == 11
\* what a getTransaction call can end in
LoopOutcomes == {"ok", "null", "failed"}
\* the transaction detail of the calls that end "ok"
SampleDetail == [delta |-> "less", feePayer |-> TRUE, err |-> FALSE]

\* the request right after getSignaturesForAddress answered n signatures
\* (walletService.ts:386-391, wallet/solanaService.ts:107-111)
atSignatures(i, n) ==
    LET P == programOf(i, "solana")
        at == CHOOSE k \in 1..Len(P) : P[k].name = "txList"
        r == [IdleRequest EXCEPT !.n = 1, !.impl = i, !.address = SolAddress,
                                 !.blockchain = "solana", !.chain = "solana",
                                 !.at = at, !.nSigs = n,
                                 !.balance = 5,
                                 !.called = {"balance", "tokenList", "txList"}]
        p == enter(r, at + 1)
    IN  [r EXCEPT !.at = p.at, !.item = p.item, !.sub = p.sub]

\* One iteration of the loop over the signatures (walletService.ts:391-450,
\* wallet/solanaService.ts:111-152), the awaited getTransaction call taken
\* with its outcome o.
DetailStep(o) ==
    /\ req.reply.kind = "none"
    /\ req.at \in 1..Len(programOf(req.impl, req.chain))
    /\ stepAt(req).kind = "each"
    /\ stepAt(req).over = "sigs"
    /\ LET c == currentCall(req)
           a == IF o = "ok" THEN Listing(<<SampleDetail>>)
                ELSE Answer(0)
       IN  IF o = "failed" /\ ~c.caught
           THEN req' = [req EXCEPT
                          !.failedCall = c.name,
                          !.reply = replyOf(req.impl,
                                       adapterCatch(req.chain, NoResult))]
           ELSE \E r \in {noted(req, c, req.item, o # "failed", a)} :
                \E p \in {following(r)} :
                   req' = [r EXCEPT !.at = p.at, !.item = p.item,
                                    !.sub = p.sub,
                                    !.called = @ \cup {c.name}]
    /\ UNCHANGED <<dispatcherVars, classifierVars, heliusKey, conv>>

\* flow f has a settled call whose continuation has not run yet
resuming(f) ==
    /\ flow[f].pc \in {"succeeded", "failed"}
    /\ req.at \in 1..Len(programOf(req.impl, req.chain))
    /\ IF f = 1 THEN req.reply.kind = "none" /\ stepAt(req).kind # "fanout"
       ELSE /\ stepAt(req).kind = "fanout"
            /\ req.cb[f] \in 1..Len(stepAt(req).body)

\* the call whose continuation flow f is about to run
awaitedCall(f) ==
    IF f = 1 THEN currentCall(req) ELSE stepAt(req).body[req.cb[f]]

(***************************************************************************)
(* Numbers and their strings: Number.prototype.toString, toFixed,          *)
(* toExponential, toLocaleString, parseInt, parseFloat as the adapters use  *)
(* them (walletService.ts:145-146, 169, 190, 243, 290-291, 366, 473;       *)
(* wallet/walletUtils.ts:29-45)                                            *)
(***************************************************************************)
\* A number is m * 10^e with m not a multiple of 10, or NaN.  The amounts
\* of the model have at most three significant digits, so that the double
\* arithmetic of the code gives the double nearest to the decimal value.
Num(m, e) == [m |-> m, e |-> e, nan |-> FALSE]
NotANumber == [m |-> 0, e |-> 0, nan |-> TRUE]
Zero == Num(0, 0)

RECURSIVE norm(_, _)
norm(m, e) ==
    IF m = 0 THEN Zero
    ELSE IF m % 10 = 0 THEN norm(m \div 10, e + 1)
    ELSE Num(m, e)

\* x / Math.pow(10, d)
divPow10(x, d) == IF x.nan THEN x ELSE norm(x.m, x.e - d)

\* x * y
product(x, y) ==
    IF x.nan \/ y.nan THEN NotANumber ELSE norm(x.m * y.m, x.e + y.e)

RECURSIVE digitsOf(_)
\* the decimal digits of a natural number
digitsOf(n) ==
    IF n < 10 THEN <<Digit[n + 1]>>
    ELSE Append(digitsOf(n \div 10), Digit[(n % 10) + 1])

zeros(k) == [i \in 1..k |-> "0"]

\* "e+5", "e-18"
exponentPart(ex) ==
    <<"e", IF ex < 0 THEN "-" ELSE "+">> \o digitsOf(IF ex < 0 THEN 0 - ex ELSE ex)

\* Number::toString(x), radix 10
numberToString(x) ==
    IF x.nan THEN <<"N", "a", "N">>
    ELSE IF x.m = 0 THEN <<"0">>
    ELSE LET s == digitsOf(x.m)
             k == Len(s)
             n == k + x.e
         IN  IF k <= n /\ n <= 21 THEN s \o zeros(n - k)
             ELSE IF 0 < n /\ n <= 21
             THEN SubSeq(s, 1, n) \o <<".">> \o SubSeq(s, n + 1, k)
             ELSE IF 0 - 6 < n /\ n <= 0
             THEN <<"0", ".">> \o zeros(0 - n) \o s
             ELSE IF k = 1 THEN s \o exponentPart(n - 1)
             ELSE <<s[1], ".">> \o SubSeq(s, 2, k) \o exponentPart(n - 1)

\* the integer nearest to x * 10^f, the larger one of two
scaled(x, f) ==
    IF x.e + f >= 0 THEN x.m * pow(10, x.e + f)
    ELSE (x.m + pow(10, 0 - (x.e + f)) \div 2) \div pow(10, 0 - (x.e + f))

\* the digits of n with a point before the last f of them
pointed(n, f) ==
    LET d == digitsOf(n)
        p == IF Len(d) > f THEN d ELSE zeros(f + 1 - Len(d)) \o d
    IN  IF f = 0 THEN p
        ELSE SubSeq(p, 1, Len(p) - f) \o <<".">>
                \o SubSeq(p, Len(p) - f + 1, Len(p))

\* Number.prototype.toFixed(f) for 0 <= x < 10^21
toFixed(x, f) ==
    IF x.nan THEN <<"N", "a", "N">> ELSE pointed(scaled(x, f), f)

\* Number.prototype.toExponential(f)
toExponential(x, f) ==
    IF x.nan THEN <<"N", "a", "N">>
    ELSE IF x.m = 0 THEN pointed(0, f) \o exponentPart(0)
    ELSE LET k == Len(digitsOf(x.m))
             n == k + x.e
             \* x = c * 10^(n - 1) with 1 <= c < 10
             c == scaled(Num(x.m, 1 - k), f)
         IN  IF c = pow(10, f + 1)
             THEN pointed(pow(10, f), f) \o exponentPart(n)
             ELSE pointed(c, f) \o exponentPart(n - 1)

RECURSIVE grouped(_)
\* the digits d with a comma before every group of three
grouped(d) ==
    IF Len(d) <= 3 THEN d
    ELSE grouped(SubSeq(d, 1, Len(d) - 3)) \o <<",">>
            \o SubSeq(d, Len(d) - 2, Len(d))

\* Number.prototype.toLocaleString(undefined, {maximumFractionDigits: 2})
\* in the en-US locale
toLocaleString(x) ==
    IF x.nan THEN <<"N", "a", "N">>
    ELSE IF x.e >= 0 THEN grouped(digitsOf(x.m) \o zeros(x.e))
    ELSE LET n == scaled(x, 2)
             whole == grouped(digitsOf(n \div 100))
             frac == n % 100
         IN  IF frac = 0 THEN whole
             ELSE IF frac % 10 = 0
             THEN whole \o <<".", Digit[(frac \div 10) + 1]>>
             ELSE whole \o <<".", Digit[(frac \div 10) + 1],
                             Digit[(frac % 10) + 1]>>

\* the value of the digit c, 16 when c is no digit
digitValue(c) ==
    IF \E i \in 1..10 : Digit[i] = c THEN indexIn(Digit, c) - 1
    ELSE IF \E i \in 1..6 : Lower[i] = c THEN 9 + indexIn(Lower, c)
    ELSE IF \E i \in 1..6 : Upper[i] = c THEN 9 + indexIn(Upper, c)
    ELSE 16

\* the end of the run of digits of radix r in s from position i
RECURSIVE runEnd(_, _, _)
runEnd(s, i, r) ==
    IF i <= Len(s) /\ digitValue(s[i]) < r THEN runEnd(s, i + 1, r) ELSE i

\* A natural number of any size: its decimal digits, lowest first.
RECURSIVE mulAdd(_, _, _)
\* b * k + c
mulAdd(b, k, c) ==
    IF b = <<>> THEN (IF c = 0 THEN <<>> ELSE mulAdd(<<0>>, k, c))
    ELSE LET v == b[1] * k + c
         IN  <<v % 10>> \o mulAdd(Tail(b), k, v \div 10)

RECURSIVE fromBig(_)
\* the double for the natural number b
fromBig(b) ==
    IF b = <<>> THEN Zero
    ELSE LET rest == fromBig(Tail(b))
         IN  IF rest.m = 0 THEN norm(b[1], 0)
             ELSE IF b[1] = 0 THEN Num(rest.m, rest.e + 1)
             ELSE Num(b[1] + rest.m * pow(10, rest.e + 1), 0)

RECURSIVE accumulate(_, _, _, _)
\* the digits s[i..j-1] of radix r appended to the natural number b
accumulate(s, i, j, r) ==
    IF i >= j THEN <<>>
    ELSE mulAdd(accumulate(s, i, j - 1, r), r, digitValue(s[j - 1]))

\* parseInt(s, 16): an optional 0x prefix, then the hexadecimal digits up to
\* the first other character; NaN when there is none (and for undefined)
parseInt16(s) ==
    LET from == IF Len(s) >= 2 /\ s[1] = "0" /\ s[2] \in {"x", "X"}
                THEN 3 ELSE 1
        to == runEnd(s, from, 16)
    IN  IF to = from THEN NotANumber
        ELSE fromBig(accumulate(s, from, to, 16))

\* parseFloat(s): the longest prefix that is a decimal literal (digits, a
\* fraction, an exponent); NaN when there is none
parseFloat(s) ==
    LET \* the exponent written at position i, 0 when there is none
        exponentAt(i) ==
            LET signed == i + 1 <= Len(s) /\ s[i + 1] \in {"+", "-"}
                written(e1, e2) ==
                    LET w == fromBig(accumulate(s, e1, e2, 10))
                    IN  IF e2 = e1 THEN 0
                        ELSE w.m * pow(10, w.e)
                               * (IF s[e1 - 1] = "-" THEN 0 - 1 ELSE 1)
                from(e1) == written(e1, runEnd(s, e1, 10))
            IN  IF i <= Len(s) /\ s[i] \in {"e", "E"}
                THEN from(IF signed THEN i + 2 ELSE i + 1)
                ELSE 0
        \* the literal with the digits s[1..i1-1] and the fraction
        \* s[i1+1..i2-1]
        literal(i1, i2) ==
            LET value(digits) ==
                    LET mant(m) ==
                            IF m.m = 0 THEN Zero
                            ELSE Num(m.m,
                                     m.e - (IF i2 > i1 THEN i2 - i1 - 1 ELSE 0)
                                        + exponentAt(i2))
                    IN  IF digits = <<>> THEN NotANumber
                        ELSE mant(fromBig(accumulate(digits, 1,
                                                     Len(digits) + 1, 10)))
            IN  value(SubSeq(s, 1, i1 - 1) \o SubSeq(s, i1 + 1, i2 - 1))
        whole(i1) ==
            literal(i1, IF i1 <= Len(s) /\ s[i1] = "."
                        THEN runEnd(s, i1 + 1, 10) ELSE i1)
    IN  whole(runEnd(s, 1, 10))

(***************************************************************************)
(* The amounts of a snapshot (walletService.ts:145-146, 168-195, 241-248,  *)
(* 290-291, 310-372, 470-477; wallet/ethereumService.ts:26-30, 61-63;      *)
(* wallet/solanaService.ts:28-31, 60, 86; wallet/walletUtils.ts:29-45)     *)
(***************************************************************************)
\* a JavaScript value: a string or a number
Str(chars) == [kind |-> "string", chars |-> chars]
NumV(x) == [kind |-> "number", num |-> x]

\* wallet/walletUtils.ts formatBalance
formatBalance(balance, decimals) ==
    LET \* !balance
        falsy ==
            IF balance.kind = "string" THEN balance.chars = <<>>
            ELSE balance.num.nan \/ balance.num.m = 0
        \* ToString(balance), what parseFloat applies to its argument
        toStr ==
            IF balance.kind = "string" THEN balance.chars
            ELSE numberToString(balance.num)
        rendered(balanceNum) ==
            LET \* balanceNum < 10^t
                below(t) ==
                    /\ ~balanceNum.nan
                    /\ \/ balanceNum.m = 0
                       \/ Len(digitsOf(balanceNum.m)) + balanceNum.e <= t
            IN  IF below(0 - 3) THEN toExponential(balanceNum, 4)
                ELSE IF below(0) THEN toFixed(balanceNum, 6)
                ELSE IF below(3) THEN toFixed(balanceNum, 4)
                ELSE toLocaleString(balanceNum)
    IN  IF falsy THEN <<"0">>
        ELSE rendered(divPow10(parseFloat(toStr), decimals))

\* a price lookup that found no price
Unresolved == [unresolved |-> TRUE]
\* the price an adapter goes on with: response?.usd || 0, and 0 from the
\* catch of the lookup
resolved(p) == IF p = Unresolved THEN Zero ELSE p

\* the native balance of a snapshot and its USD value: raw is the result of
\* eth_getBalance (a hexadecimal string) or the value of getBalance (a
\* number of lamports)
nativeBalance(impl, chain, raw, price) ==
    LET services(native) ==
            [balance |-> numberToString(native),
             usd |-> product(native, resolved(price))]
        wallet(formatted) ==
            [balance |-> formatted,
             usd |-> product(parseFloat(formatted), resolved(price))]
    IN  IF impl = "services"
        THEN services(divPow10(IF chain = "ethereum"
                               THEN parseInt16(raw.chars) ELSE raw.num,
                               IF chain = "ethereum" THEN 18 ELSE 9))
        ELSE wallet(IF chain = "ethereum"
                    THEN formatBalance(
                             Str(numberToString(parseInt16(raw.chars))), 18)
                    ELSE formatBalance(raw, 9))

\* the balance of a token of a snapshot and its USD value: token is an
\* entry of alchemy_getTokenBalances with the decimals of its metadata, or
\* the tokenAmount of a parsed token account
tokenValue(impl, chain, token, price) ==
    LET services(balance) ==
            [balance |-> numberToString(balance),
             usd |-> product(balance, resolved(price))]
        wallet(formatted) ==
            [balance |-> formatted,
             usd |-> IF chain = "solana" /\ resolved(price) = Zero
                     THEN Zero
                     ELSE product(parseFloat(formatted), resolved(price))]
    IN  IF impl = "services"
        THEN services(IF chain = "ethereum"
                      THEN divPow10(parseInt16(token.tokenBalance),
                                    IF token.decimals = 0 THEN 18
                                    ELSE token.decimals)
                      ELSE token.uiAmount)
        ELSE wallet(IF chain = "ethereum"
                    THEN formatBalance(Str(token.tokenBalance), token.decimals)
                    ELSE formatBalance(Str(token.amount), token.decimals))

NoConversion ==
    [impl |-> "none", chain |-> "none", op |-> "none", raw |-> Str(<<>>),
     price |-> Unresolved, done |-> FALSE, balance |-> <<>>, usd |-> Zero]

\* the adapter computes the native balance of its snapshot
ConvertNative ==
    /\ conv.op = "native"
    /\ ~conv.done
    /\ \E v \in {nativeBalance(conv.impl, conv.chain, conv.raw, conv.price)} :
          conv' = [conv EXCEPT !.done = TRUE, !.balance = v.balance,
                               !.usd = v.usd]
    /\ UNCHANGED <<dispatcherVars, classifierVars, walletVars>>

\* the adapter computes one token of its snapshot
ConvertToken ==
    /\ conv.op = "token"
    /\ ~conv.done
    /\ \E v \in {tokenValue(conv.impl, conv.chain, conv.raw, conv.price)} :
          conv' = [conv EXCEPT !.done = TRUE, !.balance = v.balance,
                               !.usd = v.usd]
    /\ UNCHANGED <<dispatcherVars, classifierVars, walletVars>>

\* The continuation of an await runs as a microtask, before any timer or
\* network callback: no settled call waits for its continuation.
Drained == \A f \in DOMAIN flow : flow[f].pc \notin {"succeeded", "failed"}

Init ==
    /\ elapsed = MIN_DELAY_MS
    /\ flow = [t \in Tasks |-> IdleFlow]
    /\ sinceSend = NoGap
    /\ sendGap = NoGap
    /\ address = <<>>
    /\ detected = NotDetected
    /\ validation = NotValidated
    /\ heliusKey = TRUE
    /\ req = IdleRequest
    /\ conv = NoConversion

\* concurrent callers of the dispatcher: the flows of one Promise.all
\* fan-out, or of several wallet requests served by the same process
Next ==
    \/ \E t \in Tasks : Invoke(t, MaxCalls)
    \/ \E t \in Tasks : SpacingWake(t)
    \/ \E t \in Tasks, s \in Statuses : Respond(t, s)
    \/ \E t \in Tasks : BackoffWake(t)
    \/ Tick

Spec == Init /\ [][Next]_vars

\* one caller that awaits each call before it issues the next one
NextSeq ==
    \/ Invoke(1, MaxSeqCalls)
    \/ SpacingWake(1)
    \/ \E s \in Statuses : Respond(1, s)
    \/ BackoffWake(1)
    \/ Tick

SpecSeq == Init /\ [][NextSeq]_vars

\* the same caller, with the scheduling Node.js gives: a due timer callback
\* runs, the clock advances, and (the assumption of the liveness claim) the
\* transport settles every attempt
FairSeq ==
    /\ SpecSeq
    /\ WF_vars(Tick)
    /\ WF_vars(SpacingWake(1))
    /\ WF_vars(BackoffWake(1))
    /\ WF_vars(\E s \in Statuses : Respond(1, s))

\* logical calls each caller issues where attempts may hang
MaxHangCalls == 1

\* concurrent callers of the dispatcher, with attempts that are never
\* answered
NextHang ==
    \/ \E t \in Tasks : Invoke(t, MaxHangCalls)
    \/ \E t \in Tasks : SpacingWake(t)
    \/ \E t \in Tasks, s \in Statuses : Respond(t, s)
    \/ \E t \in Tasks : BackoffWake(t)
    \/ \E t \in Tasks : Hang(t)
    \/ Tick

SpecHang == Init /\ [][NextHang]_vars

\* the scheduling Node.js gives: the clock advances and a due timer
\* callback runs.  Nothing is assumed of the transport: an attempt is
\* answered or it is one of those that never are.
FairHang ==
    /\ SpecHang
    /\ WF_vars(Tick)
    /\ \A t \in Tasks : WF_vars(SpacingWake(t))
    /\ \A t \in Tasks : WF_vars(BackoffWake(t))
    /\ \A t \in Tasks :
          WF_vars(Hang(t) \/ \E s \in Statuses : Respond(t, s))

\* the classifiers applied to each address of the family
InitClassify ==
    /\ elapsed = MIN_DELAY_MS
    /\ flow = [t \in Tasks |-> IdleFlow]
    /\ sinceSend = NoGap
    /\ sendGap = NoGap
    /\ address \in Addresses
    /\ detected = NotDetected
    /\ validation = NotValidated
    /\ heliusKey = TRUE
    /\ req = IdleRequest
    /\ conv = NoConversion

NextClassify ==
    \/ DetectServices
    \/ DetectWallet
    \/ ValidateAddress

SpecClassify == InitClassify /\ [][NextClassify]_vars

\* wallet requests served one after the other by one process
InitWallet ==
    /\ elapsed = MIN_DELAY_MS
    /\ flow = [f \in WalletFlows |-> IdleFlow]
    /\ sinceSend = NoGap
    /\ sendGap = NoGap
    /\ address = <<>>
    /\ detected = NotDetected
    /\ validation = NotValidated
    /\ heliusKey \in BOOLEAN
    /\ req = IdleRequest
    /\ conv = NoConversion

NextWallet ==
    \/ \E i \in Impls, a \in SampleAddresses : GetWalletData(i, a)
    \/ Advance
    \/ \E f \in WalletFlows : AdvanceCallback(f)
    \/ \E f \in WalletFlows, s \in WalletStatuses : Drained /\ Respond(f, s)
    \/ \E f \in WalletFlows, s \in WalletStatuses : Drained /\ RespondDirect(f, s)
    \/ \E f \in WalletFlows : Drained /\ SpacingWake(f)
    \/ \E f \in WalletFlows : Drained /\ BackoffWake(f)
    \/ Drained /\ Tick

SpecWallet == InitWallet /\ [][NextWallet]_vars

\* the loop over the signatures of a listing, for listings longer than the
\* loop's cap
InitTxLoop ==
    /\ elapsed = MIN_DELAY_MS
    /\ flow = [f \in WalletFlows |-> IdleFlow]
    /\ sinceSend = NoGap
    /\ sendGap = NoGap
    /\ address = <<>>
    /\ detected = NotDetected
    /\ validation = NotValidated
    /\ heliusKey = TRUE
    /\ \E i \in Impls, n \in 0..MaxSigList : req = atSignatures(i, n)
    /\ conv = NoConversion

NextTxLoop == \E o \in LoopOutcomes : DetailStep(o)

SpecTxLoop == InitTxLoop /\ [][NextTxLoop]_vars

\* upstream amounts in base units, as eth_getBalance and
\* alchemy_getTokenBalances give them: 0, 1, 10^14, 123 * 10^15, 5 * 10^17,
\* 10^18, 15 * 10^17, 123 * 10^19
HexAmounts ==
    {<<"0", "x", "0">>,
     <<"0", "x", "1">>,
     <<"0", "x", "5", "a", "f", "3", "1", "0", "7", "a", "4", "0", "0", "0">>,
     <<"0", "x", "1", "b", "4", "f", "b", "d", "9", "2", "b", "5", "f", "8",
       "0", "0", "0">>,
     <<"0", "x", "6", "f", "0", "5", "b", "5", "9", "d", "3", "b", "2", "0",
       "0", "0", "0">>,
     <<"0", "x", "d", "e", "0", "b", "6", "b", "3", "a", "7", "6", "4", "0",
       "0", "0", "0">>,
     <<"0", "x", "1", "4", "d", "1", "1", "2", "0", "d", "7", "b", "1", "6",
       "0", "0", "0", "0">>,
     <<"0", "x", "4", "2", "a", "d", "a", "d", "d", "3", "2", "e", "4", "2",
       "7", "8", "0", "0", "0", "0">>}
\* upstream amounts in base units, as getBalance and the token accounts give
\* them
LamportAmounts ==
    {Zero, Num(1, 0), Num(1, 5), Num(123, 6), Num(5, 8), Num(1, 9),
     Num(15, 8), Num(123, 10)}
\* decimals of the tokens
TokenDecimals == {0, 6, 9, 18}
\* what a price lookup gives
ConversionPrices == {Unresolved, Zero, Num(2, 0)}

\* the conversions an adapter can be asked for
Conversions ==
    {[NoConversion EXCEPT !.impl = i, !.chain = "ethereum", !.op = "native",
                          !.raw = Str(h), !.price = p] :
        i \in Impls, h \in HexAmounts, p \in ConversionPrices}
    \cup
    {[NoConversion EXCEPT !.impl = i, !.chain = "solana", !.op = "native",
                          !.raw = NumV(a), !.price = p] :
        i \in Impls, a \in LamportAmounts, p \in ConversionPrices}
    \cup
    {[NoConversion EXCEPT !.impl = i, !.chain = "ethereum", !.op = "token",
                          !.raw = [tokenBalance |-> h, decimals |-> d],
                          !.price = p] :
        i \in Impls, h \in HexAmounts, d \in TokenDecimals,
        p \in ConversionPrices}
    \cup
    {[NoConversion EXCEPT !.impl = i, !.chain = "solana", !.op = "token",
                          !.raw = [amount |-> digitsOf(a.m) \o zeros(a.e),
                                   decimals |-> d,
                                   uiAmount |-> divPow10(a, d)],
                          !.price = p] :
        i \in Impls, a \in LamportAmounts, d \in TokenDecimals,
        p \in ConversionPrices}

\* the conversions applied to each amount of the family
InitConvert ==
    /\ elapsed = MIN_DELAY_MS
    /\ flow = [t \in Tasks |-> IdleFlow]
    /\ sinceSend = NoGap
    /\ sendGap = NoGap
    /\ address = <<>>
    /\ detected = NotDetected
    /\ validation = NotValidated
    /\ heliusKey = TRUE
    /\ req = IdleRequest
    /\ conv \in Conversions

NextConvert ==
    \/ ConvertNative
    \/ ConvertToken

SpecConvert == InitConvert /\ [][NextConvert]_vars

TypeOK ==
    /\ elapsed \in 0..MIN_DELAY_MS
    /\ \A t \in DOMAIN flow : flow[t].retries \in 0..(MAX_RETRIES + 1)
    /\ heliusKey \in BOOLEAN
    /\ req.n \in 0..MaxRequests
    /\ req.reply.kind \in {"none", "snapshot", "throw", "error"}

(***************************************************************************)
(* Properties of the dispatcher                                            *)
(***************************************************************************)
Terminal(t) == flow[t].pc \in {"succeeded", "failed"}
Last(h) == h[Len(h)]
\* the statuses the retry policy is documented to retry
RetryStatuses == {429} \cup (500..599)
\* 4xx other than 429
ClientErrors == (400..499) \ {429}

\* C3: when the calls are issued one after the other (each after the previous
\* one returned or threw), every upstream send starts at least 500 ms after
\* the upstream send before it.
C3_SequentialSpacing == sendGap = NoGap \/ sendGap >= 500

\* the third sequential call has been sent, after the sends before it
C3_Witness ==
    /\ flow[1].ncalls = 3
    /\ flow[1].pc = "inflight"
    /\ sendGap >= 500

\* C4: under any interleaving of concurrent callers, no two upstream sends
\* start less than 500 ms apart.
C4_ConcurrentSpacing == sendGap # NoGap => sendGap >= 500

\* C5: an attempt is retried only after a 429 or 5xx answer; the send of
\* retry k+1 starts at least 2^k seconds after attempt k failed; a logical
\* call makes at most 3 retries, that is at most 4 attempts.
C5_RetryPolicy ==
    [][\A t \in Tasks :
          /\ (flow'[t].pc = "backoff" /\ flow[t].pc # "backoff")
                => Last(flow'[t].hist) \in RetryStatuses
          /\ (flow'[t].pc = "inflight" /\ flow[t].pc # "inflight"
                 /\ flow'[t].retries > 0)
                => flow[t].sinceFail >= pow(2, flow'[t].retries - 1) * 1000
          /\ flow'[t].retries <= 3
          /\ flow'[t].attempts <= 4]_vars

\* the third retry is in flight: its backoff of 4 s has been served
C5_Witness == \E t \in Tasks : flow[t].pc = "inflight" /\ flow[t].retries = 3

\* C6: answered 429, 429, 200 a call returns the 200 after exactly 3 attempts
\* and at least 1 s + 2 s of backoff; in general the first non-failing answer
\* ends the call, which returns it.
C6_FirstSuccessReturned ==
    \A t \in Tasks :
       /\ flow[t].hist = <<429, 429, 200>>
            => /\ flow[t].pc = "succeeded"
               /\ flow[t].result.status = 200
               /\ flow[t].attempts = 3
               /\ flow[t].waited >= 1000 + 2000
       /\ \A i \in 1..Len(flow[t].hist) :
            flow[t].hist[i] \in 200..299
               => /\ i = Len(flow[t].hist)
                  /\ flow[t].pc = "succeeded"
                  /\ flow[t].result = [status |-> flow[t].hist[i], attempt |-> i]
                  /\ flow[t].attempts = i

C6_Witness ==
    \E t \in Tasks : flow[t].hist = <<429, 429, 200>> /\ flow[t].pc = "succeeded"

\* C7: when every attempt is answered 429 or 5xx the call fails after exactly
\* 4 attempts, with the error of the fourth.
C7_ExhaustedBudget ==
    \A t \in Tasks :
       (/\ Terminal(t)
        /\ \A i \in 1..Len(flow[t].hist) : flow[t].hist[i] \in RetryStatuses)
          => /\ flow[t].pc = "failed"
             /\ flow[t].attempts = 4
             /\ Len(flow[t].hist) = 4
             /\ flow[t].result = [status |-> flow[t].hist[4], attempt |-> 4]

\* four failing attempts whose first and last errors differ
C7_Witness ==
    \E t \in Tasks :
       /\ flow[t].pc = "failed"
       /\ flow[t].hist = <<429, 429, 429, 503>>

\* C8: a 4xx answer other than 429 ends the call at once with that error:
\* it is the last attempt, whatever retry budget is left.
C8_ClientErrorNotRetried ==
    \A t \in Tasks : \A i \in 1..Len(flow[t].hist) :
       flow[t].hist[i] \in ClientErrors
          => /\ i = Len(flow[t].hist)
             /\ flow[t].pc = "failed"
             /\ flow[t].attempts = i
             /\ flow[t].result = [status |-> flow[t].hist[i], attempt |-> i]

\* a 404 after one retry, with two retries of the budget left
C8_Witness ==
    \E t \in Tasks :
       /\ flow[t].pc = "failed"
       /\ flow[t].hist = <<429, 404>>
       /\ flow[t].retries = 1

\* the state of a call in the terms of the call state machine
PhaseOf(fl) ==
    CASE fl.pc = "succeeded" -> "Succeeded"
      [] fl.pc = "failed" -> "Failed"
      [] fl.pc = "idle" -> "NoCall"
      [] fl.pc = "backoff" -> "Retrying"
      [] OTHER -> IF fl.retries = 0 THEN "Pending" ELSE "Retrying"

PhaseSteps ==
    {<<"Pending", "Succeeded">>, <<"Pending", "Retrying">>,
     <<"Pending", "Failed">>, <<"Retrying", "Succeeded">>,
     <<"Retrying", "Failed">>}

\* C9: a call moves Pending -> Succeeded, or Pending -> Retrying -> ... ->
\* Succeeded | Failed; Succeeded and Failed are terminal; Failed is entered
\* only on an error that is not retryable or with the budget of 3 retries
\* spent; and, every attempt being answered, a running call ends.
C9_CallStateMachine ==
    /\ [][\A t \in Tasks :
             LET before == PhaseOf(flow[t])
                 after == PhaseOf(flow'[t])
             IN  /\ (flow'[t].ncalls = flow[t].ncalls /\ after # before)
                       => <<before, after>> \in PhaseSteps
                 /\ (after = "Failed" /\ before # "Failed")
                       => \/ Last(flow'[t].hist) \notin RetryStatuses
                          \/ flow[t].retries = 3]_vars
    /\ \A t \in Tasks :
          (PhaseOf(flow[t]) \in {"Pending", "Retrying"})
             ~> (PhaseOf(flow[t]) \in {"Succeeded", "Failed"})

\* a call that succeeded on its last retry
C9_Witness == flow[1].pc = "succeeded" /\ flow[1].retries = 3

(***************************************************************************)
(* Properties of the classifier                                            *)
(***************************************************************************)
HexChars ==
    {"0", "1", "2", "3", "4", "5", "6", "7", "8", "9",
     "a", "b", "c", "d", "e", "f", "A", "B", "C", "D", "E", "F"}
\* digits without 0, capitals without I and O, small letters without l
Base58Chars ==
    {"1", "2", "3", "4", "5", "6", "7", "8", "9",
     "A", "B", "C", "D", "E", "F", "G", "H", "J", "K", "L", "M", "N",
     "P", "Q", "R", "S", "T", "U", "V", "W", "X", "Y", "Z",
     "a", "b", "c", "d", "e", "f", "g", "h", "i", "j", "k",
     "m", "n", "o", "p", "q", "r", "s", "t", "u", "v", "w", "x", "y", "z"}
IsEthereumFormat(a) ==
    /\ Len(a) = 42
    /\ a[1] = "0"
    /\ a[2] = "x"
    /\ \A i \in 3..42 : a[i] \in HexChars
IsSolanaFormat(a) ==
    /\ Len(a) \in 32..44
    /\ \A i \in 1..Len(a) : a[i] \in Base58Chars
Expected(a, none) ==
    IF IsEthereumFormat(a) THEN "ethereum"
    ELSE IF IsSolanaFormat(a) THEN "solana"
    ELSE none

\* C2: detectBlockchain returns ethereum exactly for "0x" followed by exactly
\* 40 hexadecimal characters, solana exactly for 32 to 44 base58 characters,
\* and unrecognized (null in the services module, 'unknown' in the wallet
\* module) for every other string; no string has both formats, and the two
\* implementations agree on every string.
C2_Classifier ==
    /\ detected.services # "pending"
          => detected.services = Expected(address, "null")
    /\ detected.wallet # "pending"
          => detected.wallet = Expected(address, "unknown")
    /\ ~(IsEthereumFormat(address) /\ IsSolanaFormat(address))
    /\ (detected.services # "pending" /\ detected.wallet # "pending")
          => (detected.services = "null" <=> detected.wallet = "unknown")

\* a mixed-case Ethereum address has been classified by both modules
C2_Witness ==
    /\ detected = [services |-> "ethereum", wallet |-> "ethereum"]
    /\ \E i \in 1..Len(address) : address[i] = "F"

(***************************************************************************)
(* Properties of getWalletData                                             *)
(***************************************************************************)
Recognised(a) == IsEthereumFormat(a) \/ IsSolanaFormat(a)

\* C1: getWalletData with an address of neither format fails with the
\* invalid-address error, starts no upstream call (neither a direct
\* transport call nor a rateLimitedRequest dispatch) and leaves
\* lastRequestTime as it was.
C1_InvalidAddressNoCalls ==
    [][/\ (req'.n = req.n + 1 /\ ~Recognised(req'.address))
             => /\ req'.reply.kind \in {"throw", "error"}
                /\ req'.reply.message \in
                      {"Invalid wallet address",
                       "Unsupported blockchain or invalid address format"}
                /\ elapsed' = elapsed
                /\ sinceSend' = sinceSend
                /\ sendGap' = sendGap
                /\ flow' = flow
       /\ (req'.n > 0 /\ ~Recognised(req'.address))
             => /\ req'.called = {}
                /\ \A f \in DOMAIN flow : flow'[f].pc = "idle"]_vars

\* an address one character too long is refused while the timestamp of an
\* earlier request is less than the spacing old
C1_Witness ==
    /\ req.n = 2
    /\ req.address = <<"0", "x">> \o filled(41, <<"a", "F">>)
    /\ req.reply.message = "Invalid wallet address"
    /\ elapsed < MIN_DELAY_MS

\* the calls an adapter makes outside its loops
TopLevelCalls == {"balance", "tokenList", "txList"}
AwaitsTopLevel ==
    /\ req.reply.kind = "none"
    /\ req.at \in 1..Len(programOf(req.impl, req.chain))
    /\ stepAt(req).kind = "call"
    /\ stepAt(req).name \in TopLevelCalls
GenericMessage ==
    IF req.impl = "wallet" THEN "Failed to fetch wallet data"
    ELSE IF req.chain = "ethereum" THEN "Failed to fetch Ethereum wallet data"
    ELSE "Failed to fetch Solana wallet data"

\* C10: when a top-level call of an adapter (native balance, token listing,
\* transaction listing) fails, the request ends there: the caller gets one
\* failure with the fixed generic message, no snapshot and nothing of the
\* upstream error, and the request starts no further call.
C10_TopLevelFailureAborts ==
    [][/\ (AwaitsTopLevel /\ flow[1].pc = "failed" /\ req' # req)
             => /\ req'.reply.kind \in {"throw", "error"}
                /\ req'.reply.message = GenericMessage
                /\ req'.reply.detail = NoStatus
                /\ req'.failedCall = stepAt(req).name
                /\ req'.called = req.called
                /\ \A f \in DOMAIN flow : flow'[f].pc = "idle"
       /\ (req.failedCall \in TopLevelCalls /\ req'.n = req.n)
             => /\ req' = req
                /\ \A f \in DOMAIN flow : flow'[f].pc = "idle"]_vars

\* the transaction listing of a Solana wallet with two tokens failed, after
\* the fan-out over its tokens had been joined
C10_Witness ==
    /\ req.impl = "services"
    /\ req.failedCall = "txList"
    /\ req.nTokens = 2
    /\ req.reply = [kind |-> "throw",
                    message |-> "Failed to fetch Solana wallet data",
                    detail |-> NoStatus]

PriceCalls == {"tokenPrice", "nativePrice"}

EnrichmentCalls ==
    {"metadata", "tokenRegistry", "tokenPrice", "tokenLogo", "txDetail"}

\* C12: a failed per-item enrichment call, the per-token metadata lookup
\* included, is absorbed inside the adapter: the item is defaulted and the
\* request does not fail because of it.
C12_EnrichmentFailureAbsorbed ==
    [][\A f \in DOMAIN flow :
          (/\ resuming(f)
           /\ awaitedCall(f).name \in EnrichmentCalls
           /\ flow[f].pc = "failed"
           /\ req.reply.kind = "none"
           /\ req' # req)
             => /\ req'.reply.kind \in {"none", "snapshot"}
                /\ req'.failedCall = "none"]_vars

\* the positions of d that hold "ok", in increasing order
RECURSIVE okPositions(_, _)
okPositions(d, j) ==
    IF j > Len(d) THEN <<>>
    ELSE (IF d[j] = "ok" THEN <<j>> ELSE <<>>) \o okPositions(d, j + 1)

\* the cap on the signatures whose detail is fetched
DetailCap == IF req.impl = "services" THEN 5 ELSE 10

\* C13: in the Solana adapters a failed detail fetch skips only its own
\* transaction: the transactions are exactly the signatures, among the first
\* 5 of the listing (the first 10 in the wallet module), whose detail fetch
\* succeeded with a non-null result, in the order of the listing; the list
\* never exceeds the cap and the loop never fails the fetch.
C13_DetailLoop ==
    /\ req.reply.kind \notin {"throw", "error"}
    /\ Len(req.details) <= Min(req.nSigs, DetailCap)
    /\ Len(req.txs) <= DetailCap
    /\ [j \in 1..Len(req.txs) |-> req.txs[j].sig] = okPositions(req.details, 1)
    /\ ~(req.at \in 1..Len(programOf(req.impl, req.chain))
           /\ stepAt(req).kind = "each")
          => Len(req.details) = Min(req.nSigs, DetailCap)

\* a listing of six signatures: the loop ended after five, the second fetch
\* failed and the third had no result
C13_Witness ==
    /\ req.impl = "services"
    /\ req.nSigs = 6
    /\ req.details = <<"ok", "failed", "null", "ok", "ok">>
    /\ [j \in 1..Len(req.txs) |-> req.txs[j].sig] = <<1, 4, 5>>
    /\ stepAt(req).name = "nativePrice"

\* the endpoints the request has sent a call to
EndpointsCalled == {endpointOf(req.chain, name) : name \in req.called}
EthereumEndpoints == {"alchemy-eth", "etherscan"}
SolanaEndpoints == {"helius-rpc", "solana-token-list"}

\* C14: a request for an Ethereum-format address runs the Ethereum adapter
\* only and calls no Solana endpoint, a request for a Solana-format address
\* runs the Solana adapter only and calls no Ethereum RPC or block-explorer
\* endpoint; a returned snapshot carries the chain the classifier chose.
C14_Routing ==
    req.n > 0 =>
       /\ IsEthereumFormat(req.address)
             => /\ req.chain = "ethereum"
                /\ EndpointsCalled \cap SolanaEndpoints = {}
       /\ IsSolanaFormat(req.address)
             => /\ req.chain = "solana"
                /\ EndpointsCalled \cap EthereumEndpoints = {}
       /\ req.reply.kind = "snapshot" => req.reply.chain = req.blockchain

\* an Ethereum wallet with one token, served to the end: the Alchemy RPC,
\* Etherscan and CoinGecko were called
C14_Witness ==
    /\ IsEthereumFormat(req.address)
    /\ req.reply.kind = "snapshot"
    /\ req.nTokens = 1
    /\ EndpointsCalled = {"alchemy-eth", "etherscan", "coingecko"}

\* C15: the getWalletData operation of the controller ends, for every
\* address and every upstream outcome, in a snapshot or in a failure value
\* { error }; it never raises.
C15_ControllerNeverRaises ==
    req.impl = walletController_getWalletData
       => req.reply.kind \in {"none", "snapshot", "error"}

\* C16: validateAddress returns isValid = true with the chain tag exactly
\* when the address has one of the two formats, and isValid = false with
\* null otherwise; it starts no upstream call and leaves lastRequestTime and
\* the dispatcher alone.
C16_ValidateAddress ==
    [][validation' # validation
          => /\ validation'.isValid = Recognised(address)
             /\ validation'.blockchain = Expected(address, "null")
             /\ UNCHANGED <<dispatcherVars, walletVars>>]_vars

\* an address with the prefix "0X" and 40 hexadecimal characters was found
\* invalid
C16_Witness ==
    /\ validation = [isValid |-> FALSE, blockchain |-> "null"]
    /\ Len(address) = 42
    /\ address[2] = "X"
    /\ \A i \in 3..42 : address[i] \in HexChars

\* C17: every upstream call made while a request is served goes through
\* rateLimitedRequest; no adapter call is handed to the transport directly.
C17_AllCallsDispatched == \A f \in DOMAIN flow : flow[f].pc # "direct"

\* C18: a request fails on a top-level call that was answered 429 only
\* after that call made 4 attempts, all of them failing.
C18_RateLimitRetried ==
    [][(/\ AwaitsTopLevel
        /\ flow[1].pc = "failed"
        /\ Last(flow[1].hist) = 429
        /\ req'.reply.kind \in {"throw", "error"})
          => Len(flow[1].hist) = MAX_RETRIES + 1]_vars

\* C19: when a top-level call is answered with a body that does not have
\* the expected shape, the request is aborted: it returns no snapshot.
C19_MalformedAborts ==
    req.malformed \cap TopLevelCalls # {} => req.reply.kind # "snapshot"

\* the values the Transaction type allows (wallet/types.ts:14-23)
TxStatuses == {"success", "failed", "pending"}
TxTypes == {"send", "receive", "swap", "other"}

\* C20: in every returned snapshot each transaction has a status among
\* success, failed, pending and a type among send, receive, swap, other.
C20_TransactionFields ==
    req.reply.kind = "snapshot"
       => \A j \in 1..Len(req.reply.transactions) :
             /\ req.reply.transactions[j].status \in TxStatuses
             /\ req.reply.transactions[j].type \in TxTypes

\* C23: every transaction of the Ethereum adapters has type send when its
\* from is the queried address, otherwise receive when its to is the queried
\* address, otherwise other; a transaction the address is neither sender
\* nor recipient of is never labelled receive.
C23_EthereumTxType ==
    req.chain = "ethereum"
       => \A j \in 1..Len(req.txs) :
             req.txs[j].type = IF req.seen[j].from THEN "send"
                               ELSE IF req.seen[j].to THEN "receive"
                               ELSE "other"

\* C24: every transaction of the Solana adapters has its type from the
\* queried address's own balances: send when the post-balance is lower,
\* receive when it is higher; otherwise send when the address is the fee
\* payer, and the unknown/other value when it is not.
C24_SolanaTxType ==
    req.chain = "solana"
       => \A j \in 1..Len(req.txs) :
             IF req.seen[j].delta = "less" THEN req.txs[j].type = "send"
             ELSE IF req.seen[j].delta = "more" THEN req.txs[j].type = "receive"
             ELSE IF req.seen[j].feePayer THEN req.txs[j].type = "send"
             ELSE req.txs[j].type \in {"unknown", "other"}

\* the request is at or past a Promise.all over the tokens
FannedOut ==
    /\ req.impl = "services"
    /\ req.nTokens > 0
    /\ "tokenList" \in req.called
    /\ "tokenList" \notin req.malformed

\* C22: an adapter returns its snapshot only after every fanned-out
\* per-token call has completed: no call is in flight, every callback has
\* returned; the snapshot lists one entry per token of the upstream listing,
\* in the order of the listing, whatever order the callbacks returned in.
C22_JoinBeforeSnapshot ==
    req.reply.kind = "snapshot"
       => /\ \A f \in DOMAIN flow : flow[f].pc = "idle"
          /\ Len(req.reply.tokens) = req.nTokens
          /\ \A i \in 1..req.nTokens : req.reply.tokens[i].token = i
          /\ FannedOut
                => /\ Len(req.completed) = req.nTokens
                   /\ {req.completed[i] : i \in 1..req.nTokens}
                         = 1..req.nTokens

\* a snapshot of two tokens whose callbacks returned in the opposite order,
\* the second one priced
C22_Witness ==
    /\ req.reply.kind = "snapshot"
    /\ req.impl = "services"
    /\ req.completed = <<2, 1>>
    /\ req.reply.tokens[1].token = 1
    /\ req.reply.tokens[2].value = 3 * 3

C27_HungCallStallsOnlyItself ==
    /\ [](\A u \in Tasks :
             flow[u].pc = "spacing" => flow[u].timer <= MIN_DELAY_MS)
    /\ \A u \in Tasks :
          (/\ flow[u].pc = "spacing"
           /\ \E t \in Tasks \ {u} : flow[t].pc = "hung")
             ~> flow[u].pc # "spacing"
    /\ [][\A u \in Tasks :
             (Terminal(u) /\ flow'[u].ncalls = flow[u].ncalls)
                => flow'[u] = flow[u]]_vars

\* an attempt has been hanging for a second, and the other caller's attempt
\* has just been sent after its spacing wait
C27_Witness ==
    /\ flow[1].pc = "hung"
    /\ flow[1].sinceSent >= 1000
    /\ flow[2].pc = "inflight"
    /\ flow[2].sinceSent = 0
    /\ sendGap >= MIN_DELAY_MS

\* C28: a retry goes through the spacing check like a first attempt, and
\* every attempt writes lastRequestTime as it is sent.  The time since
\* lastRequestTime is always the time since the most recent upstream send
\* started, and it is only ever reset or advanced with the clock:
\* lastRequestTime never decreases.
C28_LastRequestTime ==
    /\ [](IF sinceSend = NoGap THEN elapsed = MIN_DELAY_MS
          ELSE elapsed = sinceSend)
    /\ [][/\ elapsed' \in {0, elapsed, Min(elapsed + TickMs, MIN_DELAY_MS)}
          /\ \A t \in Tasks :
                /\ (flow'[t].pc = "inflight" /\ flow[t].pc # "inflight")
                      => /\ elapsed' = 0
                         /\ flow[t].pc = "backoff" => elapsed >= MIN_DELAY_MS
                /\ (flow[t].pc = "backoff" /\ flow'[t].pc # "backoff")
                      => \/ flow'[t].pc = "inflight"
                         \/ /\ flow'[t].pc = "spacing"
                            /\ flow'[t].timer = MIN_DELAY_MS - elapsed
                            /\ elapsed' = elapsed]_vars

\* a retry waits in the spacing check: another caller's attempt was sent
\* less than 500 ms before its backoff ended
C28_Witness ==
    /\ flow[1].pc = "spacing"
    /\ flow[1].retries = 1
    /\ flow[1].timer = TickMs
    /\ elapsed = TickMs
    /\ flow[2].pc = "inflight"

\* C29: an attempt that fails without an HTTP response ends the call at
\* once with that error: no backoff, no further attempt.
C29_NoResponseNotRetried ==
    [][\A t \in Tasks :
          (/\ flow[t].pc = "inflight"
           /\ flow'[t].hist = Append(flow[t].hist, NoResponse))
             => /\ flow'[t].pc = "failed"
                /\ flow'[t].result.status = NoResponse
                /\ flow'[t].result.attempt = flow[t].attempts
                /\ flow'[t].attempts = flow[t].attempts
                /\ flow'[t].retries = flow[t].retries]_vars

\* the second attempt of a call, made after a 429, got no response and the
\* call failed there
C29_Witness ==
    /\ flow[1].pc = "failed"
    /\ flow[1].hist = <<429, NoResponse>>
    /\ flow[1].attempts = 2
    /\ flow[1].result.status = NoResponse

\* C30: without a Helius API key the services module answers every Solana
\* address with a snapshot of balance 0, USD value 0, no token and no
\* transaction; it makes no upstream call, leaves lastRequestTime alone and
\* marks the result in no way.
C30_MissingKeySnapshot ==
    [][(/\ req'.n = req.n + 1
        /\ req'.impl = "services"
        /\ IsSolanaFormat(req'.address)
        /\ ~heliusKey)
          => /\ req'.reply = [kind |-> "snapshot", message |-> "",
                              detail |-> NoStatus, chain |-> "solana",
                              balance |-> 0, balanceUsd |-> 0,
                              tokens |-> <<>>, transactions |-> <<>>]
             /\ req'.called = {}
             /\ req'.failedCall = "none"
             /\ UNCHANGED dispatcherVars]_vars

\* a Solana request answered without a key, right after a request that went
\* through the dispatcher
C30_Witness ==
    /\ ~heliusKey
    /\ req.n = 2
    /\ req.impl = "services"
    /\ req.chain = "solana"
    /\ req.reply.kind = "snapshot"
    /\ req.called = {}
    /\ elapsed < MIN_DELAY_MS

(***************************************************************************)
(* Properties of the amounts                                               *)
(***************************************************************************)
\* 10^18 wei as eth_getBalance gives it
OneEtherHex ==
    <<"0", "x", "d", "e", "0", "b", "6", "b", "3", "a", "7", "6", "4", "0",
      "0", "0", "0">>
\* 10^9 lamports as getBalance gives it
OneSolLamports == Num(1, 9)

\* C21: the native balance of a snapshot is the raw amount divided by
\* 10^decimals, rendered as a decimal string: 0xde0b6b3a7640000 wei (10^18,
\* 18 decimals) gives "1" as the Ethereum snapshot's native balance, and
\* 1000000000 lamports (9 decimals) gives "1" as the Solana snapshot's.
C21_NativeBalanceOne ==
    (/\ conv.op = "native"
     /\ conv.done
     /\ conv.raw \in {Str(OneEtherHex), NumV(OneSolLamports)})
        => conv.balance = <<"1">>

\* the raw upstream amount of a token
rawAmount(chain, token) ==
    IF chain = "ethereum" THEN parseInt16(token.tokenBalance)
    ELSE parseFloat(token.amount)

\* C25: the balance of every token of a snapshot is its raw upstream amount
\* (for Ethereum the hexadecimal tokenBalance) divided by 10^decimals, and
\* its USD value is balance * price, with price 0 when the price could not
\* be resolved; so an unresolved price and a zero balance give USD value 0.
C25_TokenBalanceAndValue ==
    (conv.op = "token" /\ conv.done) =>
        /\ parseFloat(conv.balance)
              = divPow10(rawAmount(conv.chain, conv.raw), conv.raw.decimals)
        /\ conv.usd
              = product(divPow10(rawAmount(conv.chain, conv.raw),
                                 conv.raw.decimals),
                        resolved(conv.price))
        /\ conv.price = Unresolved => conv.usd = Zero
        /\ rawAmount(conv.chain, conv.raw) = Zero => conv.usd = Zero

====
